---- MODULE Spec2Model ----
(***************************************************************************)
(* Model of quicknlp/data/dialogue_model_data_loader.py: the dialogue      *)
(* model data containers HREDModelData, HREDAttentionModelData and         *)
(* CVAEModelData, their construction (directly and through                 *)
(* from_json_files) and their model factories get_model / to_model.        *)
(*                                                                         *)
(* Python functions are operators returning an outcome record whose        *)
(* status is "ok" or the name of the exception that left the function;     *)
(* trace lists, in program order, the collaborator calls the function      *)
(* made.  Object references are indices into the sequence containers.      *)
(***************************************************************************)
EXTENDS Integers, Sequences, FiniteSets, TLC

VARIABLES field, containers, ctor_mcs, out

vars == <<field, containers, ctor_mcs, out>>

\* ---------------------------------------------------------------- bounds
MaxContainers == 2
SmallMaxSl == 4
SmallContextSize == 30

\* ------------------------------------------------------ program constants
DefaultMaxContextSize == 130000
DefaultBs == 64
DefaultMaxSl == 1000
DefaultEmbSz == 300
DefaultNhid == 512
DefaultNlayers == 2
DefaultMaxTokens == 100
DefaultAttNhid == 512
DefaultLatentDim == 100
DefaultBowNhid == 400

\* ------------------------------------------------------------- data values
Ex(t, l) == [turns |-> t, sl |-> l]

NoneDs == [isNone |-> TRUE, examples |-> <<>>, toks |-> <<>>]
EmptyDs == [isNone |-> FALSE, examples |-> <<>>, toks |-> <<>>]
SmallDs == [isNone |-> FALSE, examples |-> <<Ex(2, 5), Ex(3, 4), Ex(1, 3)>>,
            toks |-> <<"hi", "you">>]
BigDs == [isNone |-> FALSE, examples |-> <<Ex(100, 1000), Ex(100, 1000), Ex(2, 5)>>,
          toks |-> <<"bye">>]

NoFile == [isNone |-> TRUE, malformed |-> FALSE, examples |-> <<>>, toks |-> <<>>]
GoodFile == [isNone |-> FALSE, malformed |-> FALSE,
             examples |-> <<Ex(2, 5), Ex(3, 4), Ex(1, 3)>>, toks |-> <<"hi", "you">>]
BigFile == [isNone |-> FALSE, malformed |-> FALSE,
            examples |-> <<Ex(100, 1000), Ex(100, 1000), Ex(2, 5)>>, toks |-> <<"bye">>]
NoRoleFile == [isNone |-> FALSE, malformed |-> TRUE,
               examples |-> <<Ex(2, 5)>>, toks |-> <<"hi">>]

PrebuiltItos == <<"<unk>", "<pad>", "<sos>", "<eos>", "hi">>

Classes == {"HREDModelData", "HREDAttentionModelData", "CVAEModelData"}

NoOptFn == "None"
CallerOptFns == {"SGD", "caller:partial(Adam,betas=(0.9,0.999))"}

\* ------------------------------------------------------------- vocabulary
\* vocab.stoi is a defaultdict: a token that is absent maps to index 0 (unk).
Stoi(itos, tok) ==
  IF \E i \in 1..Len(itos) : itos[i] = tok
  THEN (CHOOSE i \in 1..Len(itos) : itos[i] = tok /\ \A j \in 1..(i - 1) : itos[j] # tok) - 1
  ELSE 0

\* The specials torchtext puts first: unk, pad, init (absent here), eos.
Specials(fld) == <<"<unk>", fld.pad_token, fld.eos_token>>

\* text_field.build_vocab(trn_ds, **kwargs): scans the training examples and
\* hangs the vocabulary on the field.  Iterating a None source raises
\* TypeError before anything is assigned.
build_vocab(fld, trn_ds) ==
  IF trn_ds.isNone
  THEN [status |-> "TypeError", field |-> fld, trace |-> <<>>]
  ELSE [status |-> "ok",
        field |-> [fld EXCEPT !.hasVocab = TRUE,
                              !.itos = Specials(fld) \o trn_ds.toks,
                              !.builds = @ + 1,
                              !.scans = @ + 1],
        trace |-> <<"build_vocab">>]

\* Variant of ensure_vocab without the hasattr guard.
ensure_vocab_unguarded(fld, trn_ds) == build_vocab(fld, trn_ds)

\* if not hasattr(text_field, 'vocab'): text_field.build_vocab(trn_ds, **kwargs)
ensure_vocab(fld, trn_ds) ==
  IF ~fld.hasVocab
  THEN build_vocab(fld, trn_ds)
  ELSE [status |-> "ok", field |-> fld, trace |-> <<>>]

\* ---------------------------------------------------------------- loaders
NoneDl == [isNone |-> TRUE, ds |-> NoneDs, bs |-> 0, target_names |-> "None",
           max_context_size |-> 0, backwards |-> FALSE]

DialogueTTDataLoader(ds, bs, target_names, max_context_size, backwards) ==
  [isNone |-> FALSE, ds |-> ds, bs |-> bs, target_names |-> target_names,
   max_context_size |-> max_context_size, backwards |-> backwards]

\* Variant of make_loaders without the "if ds is not None" filter.
make_loaders_unfiltered(dss, bs, target_names, max_context_size, backwards) ==
  [i \in 1..3 |-> DialogueTTDataLoader(dss[i], bs, target_names, max_context_size, backwards)]

\* Variant of make_loaders that does not forward max_context_size.
make_loaders_default_ceiling(dss, bs, target_names, max_context_size, backwards) ==
  [i \in 1..3 |->
     IF dss[i].isNone THEN NoneDl
     ELSE DialogueTTDataLoader(dss[i], bs, target_names, DefaultMaxContextSize, backwards)]

\* [DialogueTTDataLoader(ds, bs, ...) if ds is not None else None for ds in (...)]
make_loaders(dss, bs, target_names, max_context_size, backwards) ==
  [i \in 1..3 |->
     IF dss[i].isNone THEN NoneDl
     ELSE DialogueTTDataLoader(dss[i], bs, target_names, max_context_size, backwards)]

SplitName(i) == IF i = 1 THEN "loader:trn" ELSE IF i = 2 THEN "loader:val" ELSE "loader:test"

RECURSIVE LoaderTrace(_, _)
LoaderTrace(dls, i) ==
  IF i > 3 THEN <<>>
  ELSE (IF dls[i].isNone THEN <<>> ELSE <<SplitName(i)>>) \o LoaderTrace(dls, i + 1)

\* ------------------------------------------------------------ the container
NoContainer == [isNone |-> TRUE, cls |-> "None", bs |-> 0, nt |-> 0, pad_idx |-> 0,
                eos_idx |-> 0, trn_dl |-> NoneDl, val_dl |-> NoneDl, test_dl |-> NoneDl,
                fields |-> "None"]

\* HREDModelData.__init__
HREDModelData_init(cls, fld, target_names, trn_ds, val_ds, test_ds, bs, max_context_size, backwards) ==
  LET v == ensure_vocab(fld, trn_ds) IN
  IF v.status # "ok"
  THEN [status |-> v.status, field |-> v.field, self |-> NoContainer, trace |-> v.trace]
  ELSE
    LET dls == make_loaders(<<trn_ds, val_ds, test_ds>>, bs, target_names,
                            max_context_size, backwards)
        tr == v.trace \o LoaderTrace(dls, 1)
    IN IF trn_ds.isNone
       THEN \* self.fields = trn_ds.fields on None
            [status |-> "AttributeError", field |-> v.field, self |-> NoContainer, trace |-> tr]
       ELSE [status |-> "ok", field |-> v.field, trace |-> tr,
             self |-> [isNone |-> FALSE, cls |-> cls, bs |-> bs,
                       nt |-> Len(v.field.itos),
                       pad_idx |-> Stoi(v.field.itos, v.field.pad_token),
                       eos_idx |-> Stoi(v.field.itos, v.field.eos_token),
                       trn_dl |-> dls[1], val_dl |-> dls[2], test_dl |-> dls[3],
                       fields |-> "trn_ds.fields"]]

\* DialogueDataset.splits: builds the examples of every split that has a path.
DatasetOf(file, max_sl) ==
  [isNone |-> FALSE,
   examples |-> SelectSeq(file.examples, LAMBDA e : e.sl <= max_sl),
   toks |-> file.toks]

DialogueDataset_splits(train, validation, test, max_sl) ==
  IF \E f \in {train, validation, test} : ~f.isNone /\ f.malformed
  THEN [status |-> "MalformedRecordError", datasets |-> <<>>]
  ELSE [status |-> "ok",
        datasets |-> <<DatasetOf(train, max_sl), DatasetOf(validation, max_sl)>>
                     \o (IF test.isNone THEN <<>> ELSE <<DatasetOf(test, max_sl)>>)]

\* Variant of from_json_files that builds the container from the training
\* split before the remaining splits are validated.
from_json_files_eager(cls, fld, train, validation, test, target_names, bs, max_sl, max_context_size) ==
  LET r == HREDModelData_init(cls, fld, target_names, DatasetOf(train, max_sl),
                              DatasetOf(validation, max_sl),
                              IF test.isNone THEN NoneDs ELSE DatasetOf(test, max_sl),
                              bs, max_context_size, FALSE)
      s == DialogueDataset_splits(train, validation, test, max_sl)
  IN IF s.status # "ok"
     THEN [status |-> s.status, field |-> r.field, self |-> NoContainer,
           trace |-> r.trace \o <<"splits">>]
     ELSE [r EXCEPT !.trace = @ \o <<"splits">>]

\* HREDModelData.from_json_files
from_json_files(cls, fld, train, validation, test, target_names, bs, max_sl, max_context_size) ==
  LET s == DialogueDataset_splits(train, validation, test, max_sl) IN
  IF s.status # "ok"
  THEN [status |-> s.status, field |-> fld, self |-> NoContainer, trace |-> <<"splits">>]
  ELSE
    LET datasets == s.datasets
        trn_ds == datasets[1]
        val_ds == datasets[2]
        test_ds == IF Len(datasets) = 3 THEN datasets[3] ELSE NoneDs
        r == HREDModelData_init(cls, fld, target_names, trn_ds, val_ds, test_ds, bs,
                                max_context_size, FALSE)
    IN [r EXCEPT !.trace = <<"splits">> \o @]

\* ------------------------------------------------------- architectures
NoArch == [kind |-> "None", ntoken |-> 0, emb_sz |-> 0, nhid |-> 0, nlayers |-> 0,
           pad_token |-> 0, eos_token |-> 0, max_tokens |-> 0, att_nhid |-> 0,
           latent_dim |-> 0, bow_nhid |-> 0]

\* The architecture constructors reject a structurally invalid hyperparameter.
Architecture(kind, ntoken, emb_sz, nhid, nlayers, pad_token, eos_token, max_tokens, att_nhid, latent_dim, bow_nhid) ==
  IF emb_sz <= 0 \/ nhid <= 0 \/ nlayers <= 0
  THEN [status |-> "InvalidHyperparameterError", arch |-> NoArch]
  ELSE [status |-> "ok",
        arch |-> [kind |-> kind, ntoken |-> ntoken, emb_sz |-> emb_sz, nhid |-> nhid,
                  nlayers |-> nlayers, pad_token |-> pad_token, eos_token |-> eos_token,
                  max_tokens |-> max_tokens, att_nhid |-> att_nhid,
                  latent_dim |-> latent_dim, bow_nhid |-> bow_nhid]]

HRED(ntoken, emb_sz, nhid, nlayers, pad_token, eos_token, max_tokens) ==
  Architecture("HRED", ntoken, emb_sz, nhid, nlayers, pad_token, eos_token, max_tokens, 0, 0, 0)

HREDAttention(ntoken, emb_sz, nhid, nlayers, pad_token, eos_token, max_tokens, att_nhid) ==
  Architecture("HREDAttention", ntoken, emb_sz, nhid, nlayers, pad_token, eos_token,
               max_tokens, att_nhid, 0, 0)

CVAE(ntoken, emb_sz, nhid, nlayers, pad_token, eos_token, max_tokens, latent_dim, bow_nhid) ==
  Architecture("CVAE", ntoken, emb_sz, nhid, nlayers, pad_token, eos_token, max_tokens,
               0, latent_dim, bow_nhid)

\* ------------------------------------------------------------- learners
ConstructedCrit == [name |-> "constructed", pad_idx |-> 0]

NoLearner == [isNone |-> TRUE, data |-> 0, wrapper |-> "None", arch |-> NoArch,
              opt_fn |-> "None", crit |-> ConstructedCrit]

\* EncoderDecoderLearner(data, model, opt_fn=opt_fn); model is a wrapper around m.
EncoderDecoderLearner(data, wrapper, m, opt_fn) ==
  [isNone |-> FALSE, data |-> data, wrapper |-> wrapper, arch |-> m, opt_fn |-> opt_fn,
   crit |-> ConstructedCrit]

get_cvae_loss(pad_idx) == [name |-> "cvae_loss", pad_idx |-> pad_idx]

\* Variant of HREDModelData.to_model that hands the learner a copy of the
\* container (a fresh object, identity 0) instead of self.
HREDModelData_to_model_copy(self, m, opt_fn) ==
  EncoderDecoderLearner(0, "HREDModel", m, opt_fn)

\* self is a reference: ref is the identity of the container, obj its fields.
\* HREDModelData.to_model
HREDModelData_to_model(self, m, opt_fn) ==
  EncoderDecoderLearner(self.ref, "HREDModel", m, opt_fn)

\* Variant of HREDAttentionModelData.to_model that also injects the CVAE loss.
HREDAttentionModelData_to_model_cvae_loss(self, m, opt_fn) ==
  LET learner == EncoderDecoderLearner(self.ref, "HREDAttentionModel", m, opt_fn)
  IN [learner EXCEPT !.crit = get_cvae_loss(self.obj.pad_idx)]

\* HREDAttentionModelData.to_model
HREDAttentionModelData_to_model(self, m, opt_fn) ==
  EncoderDecoderLearner(self.ref, "HREDAttentionModel", m, opt_fn)

\* CVAEModelData.to_model; learner.data is self, so learner.data.pad_idx is
\* self.pad_idx.
CVAEModelData_to_model(self, m, opt_fn) ==
  LET learner == EncoderDecoderLearner(self.ref, "CVAEModel", m, opt_fn)
  IN [learner EXCEPT !.crit = get_cvae_loss(self.obj.pad_idx)]

\* partial(optim.Adam, betas=(0.8, 0.99)), once per variant as in the source
HREDDefaultOptFn == "partial(Adam,betas=(0.8,0.99))"
HREDAttentionDefaultOptFn == "partial(Adam,betas=(0.8,0.99))"
CVAEDefaultOptFn == "partial(Adam,betas=(0.8,0.99))"

Failed(status) == [status |-> status, learner |-> NoLearner, trace |-> <<>>]

\* Variant of HREDModelData.get_model that falls back to the default
\* embedding size and tries again when the architecture is rejected.
HREDModelData_get_model_retry(self, opt_fn, emb_sz, nhid, nlayers, max_tokens) ==
  LET fn == IF opt_fn = NoOptFn THEN HREDDefaultOptFn ELSE opt_fn
      m1 == HRED(self.obj.nt, emb_sz, nhid, nlayers, self.obj.pad_idx, self.obj.eos_idx,
                 max_tokens)
      m == IF m1.status = "ok" THEN m1
           ELSE HRED(self.obj.nt, DefaultEmbSz, nhid, nlayers, self.obj.pad_idx,
                     self.obj.eos_idx, max_tokens)
  IN IF m.status # "ok" THEN Failed(m.status)
     ELSE [status |-> "ok", learner |-> HREDModelData_to_model(self, m.arch, fn),
           trace |-> <<"arch", "learner">>]

\* Variant of HREDModelData.get_model with pad_token and eos_token exchanged.
HREDModelData_get_model_swapped(self, opt_fn, emb_sz, nhid, nlayers, max_tokens) ==
  LET fn == IF opt_fn = NoOptFn THEN HREDDefaultOptFn ELSE opt_fn
      m == HRED(self.obj.nt, emb_sz, nhid, nlayers, self.obj.eos_idx, self.obj.pad_idx,
                max_tokens)
  IN IF m.status # "ok" THEN Failed(m.status)
     ELSE [status |-> "ok", learner |-> HREDModelData_to_model(self, m.arch, fn),
           trace |-> <<"arch", "learner">>]

\* HREDModelData.get_model
HREDModelData_get_model(self, opt_fn, emb_sz, nhid, nlayers, max_tokens) ==
  LET fn == IF opt_fn = NoOptFn THEN HREDDefaultOptFn ELSE opt_fn
      m == HRED(self.obj.nt, emb_sz, nhid, nlayers, self.obj.pad_idx, self.obj.eos_idx,
                max_tokens)
  IN IF m.status # "ok" THEN Failed(m.status)
     ELSE [status |-> "ok", learner |-> HREDModelData_to_model(self, m.arch, fn),
           trace |-> <<"arch", "learner">>]

\* HREDAttentionModelData.get_model
HREDAttentionModelData_get_model(self, opt_fn, emb_sz, nhid, nlayers, att_nhid, max_tokens) ==
  LET fn == IF opt_fn = NoOptFn THEN HREDAttentionDefaultOptFn ELSE opt_fn
      m == HREDAttention(self.obj.nt, emb_sz, nhid, nlayers, self.obj.pad_idx,
                         self.obj.eos_idx, max_tokens, att_nhid)
  IN IF m.status # "ok" THEN Failed(m.status)
     ELSE [status |-> "ok", learner |-> HREDAttentionModelData_to_model(self, m.arch, fn),
           trace |-> <<"arch", "learner">>]

\* Variant of CVAEModelData.get_model that ignores the caller's opt_fn.
CVAEModelData_get_model_ignore_opt(self, opt_fn, emb_sz, nhid, nlayers, max_tokens, latent_dim, bow_nhid) ==
  LET m == CVAE(self.obj.nt, emb_sz, nhid, nlayers, self.obj.pad_idx, self.obj.eos_idx,
                max_tokens, latent_dim, bow_nhid)
  IN IF m.status # "ok" THEN Failed(m.status)
     ELSE [status |-> "ok", learner |-> CVAEModelData_to_model(self, m.arch, CVAEDefaultOptFn),
           trace |-> <<"arch", "learner">>]

\* CVAEModelData.get_model
CVAEModelData_get_model(self, opt_fn, emb_sz, nhid, nlayers, max_tokens, latent_dim, bow_nhid) ==
  LET fn == IF opt_fn = NoOptFn THEN CVAEDefaultOptFn ELSE opt_fn
      m == CVAE(self.obj.nt, emb_sz, nhid, nlayers, self.obj.pad_idx, self.obj.eos_idx,
                max_tokens, latent_dim, bow_nhid)
  IN IF m.status # "ok" THEN Failed(m.status)
     ELSE [status |-> "ok", learner |-> CVAEModelData_to_model(self, m.arch, fn),
           trace |-> <<"arch", "learner">>]

\* Method dispatch on the class of the container.
get_model(self, opt_fn, emb_sz) ==
  IF self.obj.cls = "HREDModelData"
  THEN HREDModelData_get_model(self, opt_fn, emb_sz, DefaultNhid, DefaultNlayers,
                               DefaultMaxTokens)
  ELSE IF self.obj.cls = "HREDAttentionModelData"
  THEN HREDAttentionModelData_get_model(self, opt_fn, emb_sz, DefaultNhid, DefaultNlayers,
                                        DefaultAttNhid, DefaultMaxTokens)
  ELSE CVAEModelData_get_model(self, opt_fn, emb_sz, DefaultNhid, DefaultNlayers,
                               DefaultMaxTokens, DefaultLatentDim, DefaultBowNhid)

\* ------------------------------------------------------- batch iteration
RECURSIVE Chunks(_, _)
Chunks(s, n) ==
  IF s = <<>> THEN <<>>
  ELSE IF Len(s) <= n THEN <<s>>
  ELSE <<SubSeq(s, 1, n)>> \o Chunks(SubSeq(s, n + 1, Len(s)), n)

MaxOf(S) == CHOOSE x \in S : \A y \in S : y <= x

BatchOf(ch) ==
  [n |-> Len(ch),
   turns |-> MaxOf({ch[i].turns : i \in 1..Len(ch)}),
   sl |-> MaxOf({ch[i].sl : i \in 1..Len(ch)})]

ContextSize(b) == b.n * b.turns * b.sl

\* One full pass of a loader: the batches it emits, oversized ones omitted.
DialogueTTDataLoader_iter(dl) ==
  LET chunks == Chunks(dl.ds.examples, dl.bs)
      all == [i \in 1..Len(chunks) |-> BatchOf(chunks[i])]
  IN SelectSeq(all, LAMBDA b : ContextSize(b) <= dl.max_context_size)

DlOf(c, split) ==
  IF split = "trn" THEN c.trn_dl ELSE IF split = "val" THEN c.val_dl ELSE c.test_dl

\* ------------------------------------------------------------------ state
NoArgs == [opt_fn |-> "None", emb_sz |-> 0, train |-> NoFile, validation |-> NoFile,
           test |-> NoFile, max_sl |-> 0, trn_ds |-> NoneDs, val_ds |-> NoneDs,
           test_ds |-> NoneDs, split |-> "None"]

Idle == [op |-> "none", status |-> "ok", cid |-> 0, trace |-> <<>>,
         learner |-> NoLearner, batches |-> <<>>, args |-> NoArgs]

NewField == [hasVocab |-> FALSE, itos |-> <<>>, pad_token |-> "<pad>",
             eos_token |-> "<eos>", builds |-> 0, scans |-> 0]
PrebuiltField == [NewField EXCEPT !.hasVocab = TRUE, !.itos = PrebuiltItos]

Init ==
  /\ field \in {NewField, PrebuiltField}
  /\ containers = <<>>
  /\ ctor_mcs = <<>>
  /\ out = Idle

\* Common effect of a construction outcome r.
Constructed(r, op, mcs, args) ==
  /\ field' = r.field
  /\ containers' = IF r.status = "ok" THEN Append(containers, r.self) ELSE containers
  /\ ctor_mcs' = IF r.status = "ok" THEN Append(ctor_mcs, mcs) ELSE ctor_mcs
  /\ out' = [Idle EXCEPT !.op = op, !.status = r.status,
                         !.cid = IF r.status = "ok" THEN Len(containers) + 1 ELSE 0,
                         !.trace = r.trace, !.args = args]

Construct(cls, trn_ds, val_ds, test_ds, bs, mcs) ==
  /\ Len(containers) < MaxContainers
  /\ Constructed(HREDModelData_init(cls, field, "None", trn_ds, val_ds, test_ds, bs, mcs, FALSE),
                 "init", mcs,
                 [NoArgs EXCEPT !.trn_ds = trn_ds, !.val_ds = val_ds, !.test_ds = test_ds])

FromJsonFiles(cls, train, validation, test, bs, max_sl, mcs) ==
  /\ Len(containers) < MaxContainers
  /\ Constructed(from_json_files(cls, field, train, validation, test, "None", bs, max_sl, mcs),
                 "from_json_files", mcs,
                 [NoArgs EXCEPT !.train = train, !.validation = validation, !.test = test,
                                !.max_sl = max_sl])

GetModel(c, opt_fn, emb_sz) ==
  /\ c \in 1..Len(containers)
  /\ LET r == get_model([ref |-> c, obj |-> containers[c]], opt_fn, emb_sz)
     IN out' = [Idle EXCEPT !.op = "get_model", !.status = r.status, !.cid = c,
                            !.trace = r.trace, !.learner = r.learner,
                            !.args = [NoArgs EXCEPT !.opt_fn = opt_fn, !.emb_sz = emb_sz]]
  /\ UNCHANGED <<field, containers, ctor_mcs>>

Iterate(c, split) ==
  /\ c \in 1..Len(containers)
  /\ ~DlOf(containers[c], split).isNone
  /\ out' = [Idle EXCEPT !.op = "iterate", !.cid = c,
                         !.batches = DialogueTTDataLoader_iter(DlOf(containers[c], split)),
                         !.args = [NoArgs EXCEPT !.split = split]]
  /\ UNCHANGED <<field, containers, ctor_mcs>>

\* ---------------------------------------------------------- specifications
DirectDatasets == {NoneDs, EmptyDs, SmallDs}
TrainFiles == {GoodFile, NoRoleFile}
TestFiles == {NoFile, GoodFile, NoRoleFile}

\* Construction of containers, directly and from files.
NewContainer ==
  \E cls \in {"HREDModelData", "CVAEModelData"}, trn_ds \in DirectDatasets,
     val_ds \in {NoneDs, SmallDs}, test_ds \in {NoneDs, SmallDs} :
    Construct(cls, trn_ds, val_ds, test_ds, DefaultBs, DefaultMaxContextSize)

NewContainerFromFiles ==
  \E cls \in {"HREDAttentionModelData"}, train \in TrainFiles, validation \in TrainFiles,
     test \in TestFiles, max_sl \in {DefaultMaxSl, SmallMaxSl} :
    FromJsonFiles(cls, train, validation, test, DefaultBs, max_sl, DefaultMaxContextSize)

Next == NewContainer \/ NewContainerFromFiles

Spec == Init /\ [][Next]_vars

\* Containers of every variant and the learners they produce.
NewVariantContainer ==
  \E cls \in Classes, trn_ds \in {SmallDs, BigDs} :
    Construct(cls, trn_ds, SmallDs, NoneDs, DefaultBs, DefaultMaxContextSize)

NewVariantContainerFromFiles ==
  \E cls \in Classes, test \in {NoFile, GoodFile} :
    FromJsonFiles(cls, GoodFile, GoodFile, test, DefaultBs, DefaultMaxSl, DefaultMaxContextSize)

ModelRequest ==
  \E c \in 1..Len(containers), opt_fn \in {NoOptFn} \cup CallerOptFns,
     emb_sz \in {DefaultEmbSz, 0, -1} :
    GetModel(c, opt_fn, emb_sz)

NextModel == NewVariantContainer \/ NewVariantContainerFromFiles \/ ModelRequest

SpecModel == Init /\ [][NextModel]_vars

\* Containers with different batch sizes and context ceilings, and passes
\* over their iterators.
NewSizedContainer ==
  \E trn_ds \in {SmallDs}, val_ds \in {NoneDs, BigDs}, test_ds \in {NoneDs, SmallDs},
     bs \in {1, 2}, mcs \in {DefaultMaxContextSize, SmallContextSize} :
    Construct("HREDModelData", trn_ds, val_ds, test_ds, bs, mcs)

NewSizedContainerFromFiles ==
  \E train \in {GoodFile, BigFile}, test \in {NoFile, BigFile},
     mcs \in {DefaultMaxContextSize, SmallContextSize} :
    FromJsonFiles("HREDModelData", train, GoodFile, test, 2, DefaultMaxSl, mcs)

Pass ==
  \E c \in 1..Len(containers), split \in {"trn", "val", "test"} : Iterate(c, split)

NextIter == NewSizedContainer \/ NewSizedContainerFromFiles \/ Pass

SpecIter == Init /\ [][NextIter]_vars

\* ------------------------------------------------------------- properties
IsConstruction(o) == o.op \in {"init", "from_json_files"}
Has(tr, ev) == \E i \in 1..Len(tr) : tr[i] = ev
HasLoader(tr) == Has(tr, "loader:trn") \/ Has(tr, "loader:val") \/ Has(tr, "loader:test")
ModelOk == out.op = "get_model" /\ out.status = "ok"
Self == [ref |-> out.cid, obj |-> containers[out.cid]]

\* C1: over any sequence of constructions sharing the text field the
\* vocabulary is built at most once; a construction on a field that already
\* carries a vocabulary builds nothing, scans nothing and leaves the field
\* (vocabulary and indices) as it was; a construction that completes on a
\* field without a vocabulary builds it.
C1_VocabularyBuiltAtMostOnce ==
  [][ /\ field'.builds <= 1
      /\ field.hasVocab =>
           /\ field' = field
           /\ IsConstruction(out') => ~Has(out'.trace, "build_vocab")
      /\ (~field.hasVocab /\ IsConstruction(out') /\ out'.status = "ok") =>
           /\ field'.hasVocab
           /\ field'.builds = 1
           /\ field'.scans = 1 ]_vars

C1_Witness ==
  /\ Len(containers) = 2
  /\ field.builds = 1
  /\ IsConstruction(out) /\ out.cid = 2 /\ ~Has(out.trace, "build_vocab")

\* C2: a container built by from_json_files without a test path has no test
\* iterator and has its train and validation iterators; a constructed
\* container has an iterator for a split exactly when the dataset of that
\* split is not None, and a test iterator exactly when the dataset builder
\* returned three datasets.
C2_IteratorPerDataset ==
  /\ (out.op = "init" /\ out.status = "ok") =>
       LET c == containers[out.cid] IN
       /\ c.trn_dl.isNone <=> out.args.trn_ds.isNone
       /\ c.val_dl.isNone <=> out.args.val_ds.isNone
       /\ c.test_dl.isNone <=> out.args.test_ds.isNone
  /\ (out.op = "from_json_files" /\ out.status = "ok") =>
       LET c == containers[out.cid]
           built == DialogueDataset_splits(out.args.train, out.args.validation,
                                           out.args.test, out.args.max_sl).datasets
       IN /\ ~c.trn_dl.isNone /\ ~c.val_dl.isNone
          /\ out.args.test.isNone => c.test_dl.isNone
          /\ ~c.test_dl.isNone <=> Len(built) = 3
          /\ HasLoader(out.trace)

C2_Witness ==
  /\ out.op = "from_json_files" /\ out.status = "ok" /\ out.args.test.isNone
  /\ containers[out.cid].test_dl.isNone
  /\ ~containers[out.cid].trn_dl.isNone

\* C3: every learner get_model returns, on any variant, holds as its data
\* container the container get_model was called on.
C3_LearnerHoldsItsContainer ==
  ModelOk => /\ ~out.learner.isNone
             /\ out.learner.data = out.cid

C3_Witness ==
  /\ ModelOk /\ out.cid = 2 /\ out.learner.data = 2
  /\ containers[1].cls # containers[2].cls

C5_ExamplesBeforeVocabularyAndIterators ==
  [][ out'.op = "from_json_files" =>
        /\ Len(out'.trace) >= 1 /\ out'.trace[1] = "splits"
        /\ (\E f \in {out'.args.train, out'.args.validation, out'.args.test} :
              ~f.isNone /\ f.malformed) =>
             /\ out'.status = "MalformedRecordError"
             /\ out'.trace = <<"splits">>
             /\ field' = field
             /\ containers' = containers
             /\ out'.cid = 0 ]_vars

C5_Witness ==
  /\ out.op = "from_json_files" /\ out.status = "MalformedRecordError"
  /\ out.args.test.malformed /\ ~out.args.train.malformed
  /\ ~field.hasVocab

\* C6: only the CVAE variant replaces the loss of the learner, by the CVAE
\* loss built with the pad index of the container; the HRED and attention
\* variants return the learner with the loss it was constructed with; apart
\* from the architecture (with its wrapper and extra hyperparameters) and the
\* loss, a variant returns what the base container returns for the same call.
Common(l) ==
  [l EXCEPT !.wrapper = "", !.crit = ConstructedCrit, !.arch.kind = "",
            !.arch.att_nhid = 0, !.arch.latent_dim = 0, !.arch.bow_nhid = 0]

C6_OnlyCVAEReplacesLoss ==
  ModelOk =>
    LET cls == containers[out.cid].cls
        base == HREDModelData_get_model(Self, out.args.opt_fn, out.args.emb_sz, DefaultNhid,
                                        DefaultNlayers, DefaultMaxTokens)
    IN /\ cls = "CVAEModelData" =>
            out.learner.crit = [name |-> "cvae_loss", pad_idx |-> containers[out.cid].pad_idx]
       /\ cls # "CVAEModelData" => out.learner.crit = ConstructedCrit
       /\ Common(out.learner) = Common(base.learner)

C6_Witness ==
  /\ ModelOk /\ containers[out.cid].cls = "CVAEModelData"
  /\ out.learner.crit.name = "cvae_loss"
  /\ out.learner.crit.pad_idx = 1

\* C7: in every variant the learner gets Adam with betas (0.8, 0.99) exactly
\* when the caller passes no optimizer factory, and gets the caller's factory
\* unchanged otherwise.
FixedAdam == "partial(Adam,betas=(0.8,0.99))"

C7_DefaultOptimizerIffUnspecified ==
  ModelOk =>
    /\ out.args.opt_fn = NoOptFn => out.learner.opt_fn = FixedAdam
    /\ out.args.opt_fn # NoOptFn => out.learner.opt_fn = out.args.opt_fn
    /\ out.learner.opt_fn = FixedAdam <=> out.args.opt_fn = NoOptFn

C7_Witness ==
  /\ ModelOk /\ out.args.opt_fn = "SGD" /\ out.learner.opt_fn = "SGD"
  /\ containers[out.cid].cls = "CVAEModelData"

\* C8: every batch emitted in a pass over an iterator of a container has
\* batch_size * turns * max_length at most the max_context_size the container
\* was constructed with; oversized batches are omitted and the pass does not
\* raise.
C8_NoBatchAboveContextCeiling ==
  out.op = "iterate" =>
    /\ out.status = "ok"
    /\ \A i \in 1..Len(out.batches) :
         out.batches[i].n * out.batches[i].turns * out.batches[i].sl <= ctor_mcs[out.cid]

C8_Witness ==
  /\ out.op = "iterate" /\ ctor_mcs[out.cid] = SmallContextSize
  /\ Len(out.batches) >= 1
  /\ LET dl == DlOf(containers[out.cid], out.args.split)
     IN Len(out.batches) < Len(Chunks(dl.ds.examples, dl.bs))

\* C9: constructing a container with no training examples on a field without
\* a vocabulary fails with VocabularyBuildError, leaving the field without a
\* vocabulary and no iterator constructed.
C9_NoExamplesFailsVocabularyBuild ==
  [][ (out'.op = "init" /\ ~field.hasVocab /\ out'.args.trn_ds.examples = <<>>) =>
        /\ out'.status = "VocabularyBuildError"
        /\ ~field'.hasVocab
        /\ ~HasLoader(out'.trace) ]_vars

\* C10: get_model leaves the vocabulary size, pad index, eos index, batch
\* size and iterators of every container (and the field) unchanged, and the
\* architecture it builds receives the vocabulary size and the indices the
\* vocabulary holds for the pad and eos tokens of the field.
C10_GetModelFrame ==
  [][ out'.op = "get_model" =>
        /\ containers' = containers
        /\ field' = field
        /\ out'.status = "ok" =>
             LET c == containers[out'.cid]
                 a == out'.learner.arch
             IN /\ a.ntoken = c.nt /\ a.pad_token = c.pad_idx /\ a.eos_token = c.eos_idx
                /\ a.ntoken = Len(field.itos)
                /\ a.pad_token = Stoi(field.itos, field.pad_token)
                /\ a.eos_token = Stoi(field.itos, field.eos_token) ]_vars

C10_Witness ==
  /\ ModelOk /\ out.learner.arch.pad_token = 1 /\ out.learner.arch.eos_token = 3
  /\ out.learner.arch.ntoken = 5

====
